---- MODULE Spec2Model ----
(***************************************************************************)
(* A model of src/src/annotator.ts of action-junit-report: the check-run   *)
(* reporter (annotateTestResult, updateChecks), the summary tables         *)
(* (buildSummaryTables) and the pull-request comment publisher             *)
(* (buildCommentIdentifier, attachComment, findPriorComment).              *)
(*                                                                         *)
(* JavaScript runs a handler to its next await without interruption, so an *)
(* action is the code between two awaits; a remote call is issued by one   *)
(* action and answered (resolved or rejected) by another.                  *)
(***************************************************************************)
EXTENDS Integers, Sequences, FiniteSets, TLC

VARIABLES
  \* ---- annotateTestResult ----
  testResult,    \* the TestResult argument
  options,       \* checkAnnotations, annotateOnly, updateCheck, annotateNotice
  checkRuns,     \* ids of the in-progress check-runs GitHub holds for jobName/headSha
  pc,            \* position of annotateTestResult
  calls,         \* check-run API calls issued so far, in issue order
  diagnostics,   \* core.error / core.warning / core.notice lines emitted, in order
  \* ---- buildSummaryTables ----
  testResults,   \* the TestResult[] argument
  summaryFlags,  \* includePassed, detailedSummary, flakySummary
  tables,        \* the returned [table, detailsTable, flakyTable]
  tpc,           \* position of buildSummaryTables
  \* ---- attachComment ----
  issueNumber,   \* context.issue.number (0: none)
  initialComments, \* the comments of the pull request before the first invocation
  comments,      \* the comments of the pull request, oldest first
  nextId,        \* id GitHub gives the next comment created
  invocation,    \* arguments and locals of the running attachComment
  cpc,           \* position of attachComment
  commentCalls,  \* issue-comment API calls of the running invocation, in issue order
  history        \* finished attachComment invocations, in order

vars == <<testResult, options, checkRuns, pc, calls, diagnostics,
          testResults, summaryFlags, tables, tpc,
          issueNumber, initialComments, comments, nextId, invocation, cpc, commentCalls, history>>

checkVars == <<testResult, options, checkRuns, pc, calls, diagnostics>>
tableVars == <<testResults, summaryFlags, tables, tpc>>
commentVars == <<issueNumber, initialComments, comments, nextId, invocation, cpc, commentCalls, history>>

----------------------------------------------------------------------------
(* Bounds of the model *)

MaxAnnotations == 101   \* longest annotation list given to annotateTestResult
MaxFailed == 1          \* largest failed count of a TestResult
MaxResults == 2         \* longest TestResult list given to buildSummaryTables
MaxSummaryAnnotations == 2  \* most annotations over the whole TestResult list
MaxRetries == 1         \* largest retries of an annotation
MaxInitialComments == 2 \* most comments on the pull request before the first run
MaxInvocations == 2     \* most attachComment invocations in a row

(* Program constants *)

ChunkSize == 50         \* annotations per check-run call

----------------------------------------------------------------------------
(* Helpers standing for JavaScript array primitives *)

\* Array.prototype.slice(from, to) with 0-based, end-exclusive indices
Slice(s, from, to) ==
  SubSeq(s, from + 1, IF to < Len(s) THEN to ELSE Len(s))

----------------------------------------------------------------------------
(* annotateTestResult *)

\* The annotation lists the model feeds in: n annotations, the i-th one
\* identified by its path i, with levels cycling through a pattern.
LevelPatterns == {<<"failure">>, <<"notice", "warning", "failure">>}

AnnotationList(n, pattern) ==
  [i \in 1..n |->
     [path |-> i, annotation_level |-> pattern[((i - 1) % Len(pattern)) + 1]]]

\* The ids listForRef may answer with: none, one, or several (latest first)
CheckRunLists == {<<>>, <<71>>, <<72, 71>>}

\* line 18-20
EligibleAnnotations(result, annotateNotice) ==
  LET keep(a) == annotateNotice \/ a.annotation_level # "notice"
  IN  SelectSeq(result.annotations, keep)

annotations == EligibleAnnotations(testResult, options.annotateNotice)

\* line 21-26: the title is kept as its interpolated numbers
Title(result) ==
  IF result.totalCount > 0 \/ result.skipped > 0
    THEN <<result.totalCount, result.passed, result.skipped, result.failed>>
    ELSE <<"No test results found!">>

\* Conclusion with a skipped test counted as a failed one
ConclusionCountingSkipped(result) ==
  IF result.failed + result.skipped <= 0 THEN "success" ELSE "failure"

\* line 30
Conclusion(result) == IF result.failed <= 0 THEN "success" ELSE "failure"

\* Severity with the notice branch lost
SeverityWithoutNotice(a, annotateNotice) ==
  IF a.annotation_level = "failure" THEN "error"
  ELSE IF a.annotation_level = "warning" THEN "warning"
  ELSE "none"

\* line 48-54: the severity of the diagnostic of one annotation, "none" if
\* none is emitted
Severity(a, annotateNotice) ==
  IF a.annotation_level = "failure" THEN "error"
  ELSE IF a.annotation_level = "warning" THEN "warning"
  ELSE IF annotateNotice THEN "notice"
  ELSE "none"

\* line 39-55
RECURSIVE EmitDiagnostics(_, _)
EmitDiagnostics(anns, annotateNotice) ==
  IF anns = <<>> THEN <<>>
  ELSE LET a == Head(anns)
           sev == Severity(a, annotateNotice)
       IN  (IF sev = "none" THEN <<>> ELSE <<[severity |-> sev, file |-> a.path]>>)
           \o EmitDiagnostics(Tail(anns), annotateNotice)

Call(op, id, conclusion, title, anns) ==
  [op |-> op, check_run_id |-> id, conclusion |-> conclusion, title |-> title,
   annotations |-> anns, state |-> "pending"]

\* line 106-125: updateChecks builds the request and issues checks.update
UpdateChecksCall(check_run_id, title, anns) ==
  Call("update", check_run_id, "none", title, anns)

\* The chunk loop with the bound i <= annotations.length
RECURSIVE ChunkLoopInclusive(_, _, _, _)
ChunkLoopInclusive(i, anns, check_run_id, title) ==
  IF i <= Len(anns)
    THEN <<UpdateChecksCall(check_run_id, title, Slice(anns, i, i + ChunkSize))>>
         \o ChunkLoopInclusive(i + ChunkSize, anns, check_run_id, title)
    ELSE <<>>

\* line 73-76: the calls the chunk loop issues from index i on
RECURSIVE ChunkLoop(_, _, _, _)
ChunkLoop(i, anns, check_run_id, title) ==
  IF i < Len(anns)
    THEN <<UpdateChecksCall(check_run_id, title, Slice(anns, i, i + ChunkSize))>>
         \o ChunkLoop(i + ChunkSize, anns, check_run_id, title)
    ELSE <<>>

\* line 71-80
UpdateCalls(check_run_id) ==
  IF options.checkAnnotations
    THEN ChunkLoop(0, annotations, check_run_id, Title(testResult))
    ELSE <<UpdateChecksCall(check_run_id, Title(testResult), <<>>)>>

\* The create request without the slice(0, 50)
CreateCheckRequestUnsliced ==
  LET adjustedAnnotations == IF options.checkAnnotations THEN annotations ELSE <<>>
  IN  Call("create", 0, Conclusion(testResult), Title(testResult), adjustedAnnotations)

\* line 82-96
CreateCheckRequest ==
  LET adjustedAnnotations == IF options.checkAnnotations THEN annotations ELSE <<>>
  IN  Call("create", 0, Conclusion(testResult), Title(testResult),
           Slice(adjustedAnnotations, 0, ChunkSize))

TestResults ==
  { [totalCount |-> p + f, passed |-> p, skipped |-> s, failed |-> f,
     annotations |-> AnnotationList(n, pat)] :
       <<p, s, f, n, pat>> \in
         (0..1) \X (0..1) \X (0..MaxFailed) \X (0..MaxAnnotations) \X LevelPatterns }

Options ==
  [checkAnnotations : BOOLEAN, annotateOnly : BOOLEAN, updateCheck : BOOLEAN,
   annotateNotice : BOOLEAN]

NoTables == [table |-> <<>>, detailsTable |-> <<>>, flakyTable |-> <<>>]

TableIdle ==
  /\ testResults = <<>>
  /\ summaryFlags = [includePassed |-> FALSE, detailedSummary |-> FALSE,
                     flakySummary |-> FALSE]
  /\ tables = NoTables
  /\ tpc = "idle"

NoInvocation ==
  [checkName |-> <<>>, updateComment |-> FALSE, identifier |-> "", comment |-> "",
   outcome |-> "none"]

CommentIdle ==
  /\ issueNumber = 0
  /\ initialComments = <<>>
  /\ comments = <<>>
  /\ nextId = 1
  /\ invocation = NoInvocation
  /\ cpc = "idle"
  /\ commentCalls = <<>>
  /\ history = <<>>

CheckInit ==
  /\ testResult \in TestResults
  /\ options \in Options
  /\ checkRuns \in CheckRunLists
  /\ pc = "start"
  /\ calls = <<>>
  /\ diagnostics = <<>>

Init == CheckInit /\ TableIdle /\ CommentIdle

\* line 37-55: annotateOnly, no await on the path
AnnotateOnly ==
  /\ pc = "start"
  /\ options.annotateOnly
  /\ diagnostics' = EmitDiagnostics(annotations, options.annotateNotice)
  /\ pc' = "resolved"
  /\ UNCHANGED <<testResult, options, checkRuns, calls>>
  /\ UNCHANGED <<tableVars, commentVars>>

\* line 58-65: checks.listForRef is issued and awaited
ListForRef ==
  /\ pc = "start"
  /\ ~options.annotateOnly
  /\ options.updateCheck
  /\ calls' = Append(calls, Call("list", 0, "none", <<>>, <<>>))
  /\ pc' = "awaitList"
  /\ UNCHANGED <<testResult, options, checkRuns, diagnostics>>
  /\ UNCHANGED <<tableVars, commentVars>>

\* the awaited listForRef rejects: the error leaves annotateTestResult
ListRejects ==
  /\ pc = "awaitList"
  /\ calls' = [calls EXCEPT ![Len(calls)].state = "failed"]
  /\ pc' = "rejected"
  /\ UNCHANGED <<testResult, options, checkRuns, diagnostics>>
  /\ UNCHANGED <<tableVars, commentVars>>

\* The lookup miss skipped silently
LookupMissIgnored ==
  /\ pc = "awaitList"
  /\ checkRuns = <<>>
  /\ calls' = [calls EXCEPT ![Len(calls)].state = "ok"]
  /\ pc' = "resolved"
  /\ UNCHANGED <<testResult, options, checkRuns, diagnostics>>
  /\ UNCHANGED <<tableVars, commentVars>>

\* line 69 with an empty check_runs: check_runs[0] is undefined and reading
\* its id throws a TypeError, which rejects the promise
LookupMiss ==
  /\ pc = "awaitList"
  /\ checkRuns = <<>>
  /\ calls' = [calls EXCEPT ![Len(calls)].state = "ok"]
  /\ pc' = "rejected"
  /\ UNCHANGED <<testResult, options, checkRuns, diagnostics>>
  /\ UNCHANGED <<tableVars, commentVars>>

\* line 69-80: the update calls are issued one after the other, none is
\* awaited, and the function returns
UpdateCheck ==
  /\ pc = "awaitList"
  /\ checkRuns # <<>>
  /\ calls' = [calls EXCEPT ![Len(calls)].state = "ok"] \o UpdateCalls(checkRuns[1])
  /\ pc' = "resolved"
  /\ UNCHANGED <<testResult, options, checkRuns, diagnostics>>
  /\ UNCHANGED <<tableVars, commentVars>>

\* an update call is answered; no code of annotateTestResult waits for it
UpdateResolves(k) ==
  /\ calls[k].op = "update"
  /\ calls[k].state = "pending"
  /\ calls' = [calls EXCEPT ![k].state = "ok"]
  /\ UNCHANGED <<testResult, options, checkRuns, pc, diagnostics>>
  /\ UNCHANGED <<tableVars, commentVars>>

UpdateRejects(k) ==
  /\ calls[k].op = "update"
  /\ calls[k].state = "pending"
  /\ calls' = [calls EXCEPT ![k].state = "failed"]
  /\ UNCHANGED <<testResult, options, checkRuns, pc, diagnostics>>
  /\ UNCHANGED <<tableVars, commentVars>>

\* line 82-101: checks.create is issued and awaited
CreateCheck ==
  /\ pc = "start"
  /\ ~options.annotateOnly
  /\ ~options.updateCheck
  /\ calls' = Append(calls, CreateCheckRequest)
  /\ pc' = "awaitCreate"
  /\ UNCHANGED <<testResult, options, checkRuns, diagnostics>>
  /\ UNCHANGED <<tableVars, commentVars>>

CreateResolves ==
  /\ pc = "awaitCreate"
  /\ calls' = [calls EXCEPT ![Len(calls)].state = "ok"]
  /\ pc' = "resolved"
  /\ UNCHANGED <<testResult, options, checkRuns, diagnostics>>
  /\ UNCHANGED <<tableVars, commentVars>>

CreateRejects ==
  /\ pc = "awaitCreate"
  /\ calls' = [calls EXCEPT ![Len(calls)].state = "failed"]
  /\ pc' = "rejected"
  /\ UNCHANGED <<testResult, options, checkRuns, diagnostics>>
  /\ UNCHANGED <<tableVars, commentVars>>

Next ==
  \/ AnnotateOnly
  \/ ListForRef
  \/ ListRejects
  \/ LookupMiss
  \/ UpdateCheck
  \/ \E k \in 1..Len(calls) : UpdateResolves(k)
  \/ \E k \in 1..Len(calls) : UpdateRejects(k)
  \/ CreateCheck
  \/ CreateResolves
  \/ CreateRejects

Spec == Init /\ [][Next]_vars

----------------------------------------------------------------------------
(* buildSummaryTables *)

\* A SummaryTableRow: header cells carry header: true, data cells are strings
HeaderRow(cells) == [header |-> TRUE, cells |-> cells]
DataRow(cells) == [header |-> FALSE, cells |-> cells]

\* The annotations the model feeds in: a level with the status a test of that
\* level has, and a retry count; the title is given by the position.
AnnotationKinds ==
  { [annotation_level |-> "notice", status |-> "success"],
    [annotation_level |-> "notice", status |-> "skipped"],
    [annotation_level |-> "warning", status |-> "failure"],
    [annotation_level |-> "failure", status |-> "failure"] }

SummaryAnnotation(kind, retries, i) ==
  [title |-> "test" \o ToString(i), annotation_level |-> kind.annotation_level,
   status |-> kind.status, retries |-> retries]

CheckNames == <<"unit", "integration", "e2e", "smoke">>

CountStatus(anns, status) ==
  Cardinality({i \in 1..Len(anns) : anns[i].status = status})

SummaryResult(i, anns) ==
  [checkName |-> CheckNames[i], totalCount |-> Len(anns),
   passed |-> CountStatus(anns, "success"), skipped |-> CountStatus(anns, "skipped"),
   failed |-> CountStatus(anns, "failure"), annotations |-> anns]

RECURSIVE Sum(_)
Sum(ls) == IF ls = <<>> THEN 0 ELSE Head(ls) + Sum(Tail(ls))

\* The shapes of the TestResult lists the model feeds in: the number of
\* annotations of each result, at most MaxSummaryAnnotations in all
ResultShapes ==
  { ls \in UNION { [1..n -> 0..MaxSummaryAnnotations] : n \in 0..MaxResults } :
      Sum(ls) <= MaxSummaryAnnotations }

\* The TestResult list of shape ls whose annotations, numbered through the
\* list, have the kinds and retries picks gives
ResultList(ls, picks) ==
  [r \in 1..Len(ls) |->
     SummaryResult(r, [i \in 1..ls[r] |->
       LET pick == picks[Sum(SubSeq(ls, 1, r - 1)) + i]
       IN  SummaryAnnotation(pick[1], pick[2], i)])]

SummaryFlags ==
  [includePassed : BOOLEAN, detailedSummary : BOOLEAN, flakySummary : BOOLEAN]

\* line 133-141 (the emoji of the labels are left out here and below)
TableHeader == HeaderRow(<<"", "Tests", "Passed", "Skipped", "Failed">>)
\* line 146-150
DetailsHeader == HeaderRow(<<"", "Test", "Result">>)
\* line 156-160
FlakyHeader == HeaderRow(<<"", "Test", "Retries">>)

\* line 164-170
TableRow(result) ==
  DataRow(<<result.checkName, ToString(result.totalCount) \o " ran",
            ToString(result.passed) \o " passed",
            ToString(result.skipped) \o " skipped",
            ToString(result.failed) \o " failed">>)

\* line 173-175
SummaryAnnotations(result, includePassed) ==
  LET keep(a) == includePassed \/ a.annotation_level # "notice"
  IN  SelectSeq(result.annotations, keep)

\* line 185-195
DetailsRow(result, a) ==
  DataRow(<<result.checkName, a.title,
            IF a.status = "success" THEN "pass"
            ELSE IF a.status = "skipped" THEN "skipped"
            ELSE a.annotation_level>>)

\* line 198
FlakyRow(result, a) == DataRow(<<result.checkName, a.title, ToString(a.retries)>>)

\* line 176-201: the rows one TestResult adds to detailsTable
DetailsRows(result, includePassed) ==
  LET anns == SummaryAnnotations(result, includePassed)
  IN  IF Len(anns) = 0
        THEN <<DataRow(<<"-", "No test annotations available", "-">>)>>
        ELSE [i \in 1..Len(anns) |-> DetailsRow(result, anns[i])]

\* line 184, 197-199: the rows one TestResult adds to flakyTable
FlakyRows(result, includePassed) ==
  LET flaky(a) == a.retries > 0
      anns == SelectSeq(SummaryAnnotations(result, includePassed), flaky)
  IN  [i \in 1..Len(anns) |-> FlakyRow(result, anns[i])]

\* The loop body running the details pass whatever detailedSummary is
PushResultAlwaysDetailed(acc, result, flags) ==
  [table |-> Append(acc.table, TableRow(result)),
   detailsTable |-> acc.detailsTable \o DetailsRows(result, flags.includePassed),
   flakyTable |-> acc.flakyTable \o FlakyRows(result, flags.includePassed)]

\* line 163-203: one iteration of the loop over testResults
PushResult(acc, result, flags) ==
  [table |-> Append(acc.table, TableRow(result)),
   detailsTable |->
     IF flags.detailedSummary
       THEN acc.detailsTable \o DetailsRows(result, flags.includePassed)
       ELSE acc.detailsTable,
   flakyTable |->
     IF flags.detailedSummary
       THEN acc.flakyTable \o FlakyRows(result, flags.includePassed)
       ELSE acc.flakyTable]

RECURSIVE SummaryLoop(_, _, _)
SummaryLoop(acc, results, flags) ==
  IF results = <<>> THEN acc
  ELSE SummaryLoop(PushResult(acc, Head(results), flags), Tail(results), flags)

\* line 127-205
BuildSummaryTables(results, flags) ==
  SummaryLoop([table |-> <<TableHeader>>,
               detailsTable |-> IF ~flags.detailedSummary THEN <<>> ELSE <<DetailsHeader>>,
               flakyTable |-> IF ~flags.flakySummary THEN <<>> ELSE <<FlakyHeader>>],
              results, flags)

CheckIdle ==
  /\ testResult = [totalCount |-> 0, passed |-> 0, skipped |-> 0, failed |-> 0,
                   annotations |-> <<>>]
  /\ options = [checkAnnotations |-> FALSE, annotateOnly |-> FALSE,
                updateCheck |-> FALSE, annotateNotice |-> FALSE]
  /\ checkRuns = <<>>
  /\ pc = "idle"
  /\ calls = <<>>
  /\ diagnostics = <<>>

TableInit ==
  /\ \E ls \in ResultShapes :
       \E picks \in [1..Sum(ls) -> AnnotationKinds \X (0..MaxRetries)] :
         testResults = ResultList(ls, picks)
  /\ summaryFlags \in SummaryFlags
  /\ tables = NoTables
  /\ tpc = "start"

\* the call of buildSummaryTables
BuildTables ==
  /\ tpc = "start"
  /\ tables' = BuildSummaryTables(testResults, summaryFlags)
  /\ tpc' = "done"
  /\ UNCHANGED <<testResults, summaryFlags>>
  /\ UNCHANGED <<checkVars, commentVars>>

InitTables == CheckIdle /\ TableInit /\ CommentIdle

NextTables == BuildTables

SpecTables == InitTables /\ [][NextTables]_vars

----------------------------------------------------------------------------
(* buildCommentIdentifier, attachComment, findPriorComment *)

\* JSON.stringify of a string without characters to escape
JsonString(str) == "\"" \o str \o "\""

\* JSON.stringify of an array of strings: elements joined by commas
RECURSIVE JsonElements(_)
JsonElements(names) ==
  IF names = <<>> THEN ""
  ELSE IF Len(names) = 1 THEN JsonString(names[1])
  ELSE JsonString(Head(names)) \o "," \o JsonElements(Tail(names))

JsonStringify(names) == "[" \o JsonElements(names) \o "]"

\* line 221-223
BuildCommentIdentifier(checkName) ==
  "<!-- Summary comment for " \o JsonStringify(checkName)
    \o " by mikepenz/action-junit-report -->"

\* String.prototype.endsWith
EndsWith(str, suffix) ==
  /\ Len(suffix) <= Len(str)
  /\ SubSeq(str, Len(str) - Len(suffix) + 1, Len(str)) = suffix

\* String.prototype.includes
Includes(str, part) ==
  \E i \in 1..(Len(str) - Len(part) + 1) : SubSeq(str, i, i + Len(part) - 1) = part

\* buildTable of ./utils: the rows rendered as an HTML table
RECURSIVE BuildCells(_, _)
BuildCells(cells, header) ==
  IF cells = <<>> THEN ""
  ELSE (IF header THEN "<th>" \o Head(cells) \o "</th>"
                  ELSE "<td>" \o Head(cells) \o "</td>")
       \o BuildCells(Tail(cells), header)

RECURSIVE BuildRows(_)
BuildRows(rows) ==
  IF rows = <<>> THEN ""
  ELSE "<tr>" \o BuildCells(Head(rows).cells, Head(rows).header) \o "</tr>"
       \o BuildRows(Tail(rows))

BuildTable(rows) == "<table>" \o BuildRows(rows) \o "</table>"

\* The body with the identifier written before the tables
CommentBodyIdentifierFirst(t, identifier) ==
  identifier \o "\n\n" \o BuildTable(t.table)
    \o (IF Len(t.detailsTable) > 0 THEN "\n\n" \o BuildTable(t.detailsTable) ELSE "")
    \o (IF Len(t.flakyTable) > 1 THEN "\n\n" \o BuildTable(t.flakyTable) ELSE "")

\* line 240-249
CommentBody(t, identifier) ==
  BuildTable(t.table)
    \o (IF Len(t.detailsTable) > 0 THEN "\n\n" \o BuildTable(t.detailsTable) ELSE "")
    \o (IF Len(t.flakyTable) > 1 THEN "\n\n" \o BuildTable(t.flakyTable) ELSE "")
    \o "\n\n" \o identifier

\* line 276: comment.body?.endsWith(identifier)
BodyEndsWith(c, identifier) == c.hasBody /\ EndsWith(c.body, identifier)

\* The lookup matching the identifier anywhere in the body
FindPriorCommentIncludes(cs, identifier) ==
  LET found(c) == c.hasBody /\ Includes(c.body, identifier)
      hits == SelectSeq(cs, found)
  IN  IF hits = <<>> THEN 0 ELSE hits[1].id

\* line 269-278: the id of the first comment whose body ends with the
\* identifier, 0 (undefined) when there is none
FindPriorComment(cs, identifier) ==
  LET found(c) == BodyEndsWith(c, identifier)
      hits == SelectSeq(cs, found)
  IN  IF hits = <<>> THEN 0 ELSE hits[1].id

\* The check-name lists the model publishes under
CheckNameLists == {<<"unit">>, <<"unit", "e2e">>}

\* The tables the model publishes: those buildSummaryTables returns for one
\* result with a retried failure, with and without the detail and flaky tables
CommentTables ==
  LET result == SummaryResult(1,
                  <<SummaryAnnotation([annotation_level |-> "failure",
                                       status |-> "failure"], 1, 1)>>)
  IN  { BuildSummaryTables(<<result>>, f) :
          f \in { [includePassed |-> FALSE, detailedSummary |-> FALSE, flakySummary |-> FALSE],
                  [includePassed |-> FALSE, detailedSummary |-> TRUE, flakySummary |-> TRUE] } }

\* The comment bodies found on the pull request before the first run
InitialBodies ==
  { [hasBody |-> FALSE, body |-> ""],
    [hasBody |-> TRUE, body |-> "LGTM"],
    [hasBody |-> TRUE, body |-> "old" \o "\n\n" \o BuildCommentIdentifier(<<"unit">>)],
    [hasBody |-> TRUE, body |-> BuildCommentIdentifier(<<"unit", "e2e">>) \o " (quoted)"] }

InitialCommentLists ==
  UNION { { [i \in 1..n |-> [id |-> i, hasBody |-> f[i].hasBody, body |-> f[i].body]] :
              f \in [1..n -> InitialBodies] } : n \in 0..MaxInitialComments }

CommentCall(op, id, body) ==
  [op |-> op, comment_id |-> id, body |-> body, state |-> "pending"]

CommentInit ==
  /\ issueNumber \in {0, 7}
  /\ initialComments \in InitialCommentLists
  /\ comments = initialComments
  /\ nextId = Len(initialComments) + 1
  /\ invocation = NoInvocation
  /\ cpc = "idle"
  /\ commentCalls = <<>>
  /\ history = <<>>

Finished(outcome, op, id) ==
  /\ history' = Append(history, [checkName |-> invocation.checkName,
                                 updateComment |-> invocation.updateComment,
                                 outcome |-> outcome, op |-> op, comment_id |-> id])
  /\ invocation' = [invocation EXCEPT !.outcome = outcome]
  /\ cpc' = "idle"

\* line 233-236: no issue number, warn and return
AttachWithoutIssue(checkName, updateComment, t) ==
  /\ cpc = "idle"
  /\ Len(history) < MaxInvocations
  /\ issueNumber = 0
  /\ invocation' = [checkName |-> checkName, updateComment |-> updateComment,
                    identifier |-> "", comment |-> "", outcome |-> "skipped"]
  /\ history' = Append(history, [checkName |-> checkName, updateComment |-> updateComment,
                                 outcome |-> "skipped", op |-> "none", comment_id |-> 0])
  /\ commentCalls' = <<>>
  /\ UNCHANGED <<issueNumber, initialComments, comments, nextId, cpc>>
  /\ UNCHANGED <<checkVars, tableVars>>

StartInvocation(checkName, updateComment, t) ==
  LET identifier == BuildCommentIdentifier(checkName)
  IN  invocation' = [checkName |-> checkName, updateComment |-> updateComment,
                     identifier |-> identifier, comment |-> CommentBody(t, identifier),
                     outcome |-> "running"]

\* line 238-251 with updateComment: findPriorComment issues the listing
AttachListing(checkName, t) ==
  /\ cpc = "idle"
  /\ Len(history) < MaxInvocations
  /\ issueNumber # 0
  /\ StartInvocation(checkName, TRUE, t)
  /\ commentCalls' = <<CommentCall("listComments", 0, "")>>
  /\ cpc' = "awaitList"
  /\ UNCHANGED <<issueNumber, initialComments, comments, nextId, history>>
  /\ UNCHANGED <<checkVars, tableVars>>

\* line 238-251, 260-265 without updateComment: createComment is issued
AttachCreating(checkName, t) ==
  /\ cpc = "idle"
  /\ Len(history) < MaxInvocations
  /\ issueNumber # 0
  /\ StartInvocation(checkName, FALSE, t)
  /\ commentCalls' = <<CommentCall("createComment", 0, invocation'.comment)>>
  /\ cpc' = "awaitCreate"
  /\ UNCHANGED <<issueNumber, initialComments, comments, nextId, history>>
  /\ UNCHANGED <<checkVars, tableVars>>

\* the awaited listing rejects
ListCommentsRejects ==
  /\ cpc = "awaitList"
  /\ commentCalls' = [commentCalls EXCEPT ![1].state = "failed"]
  /\ Finished("rejected", "none", 0)
  /\ UNCHANGED <<issueNumber, initialComments, comments, nextId>>
  /\ UNCHANGED <<checkVars, tableVars>>

\* line 276-277, 252-258: a prior comment is found, updateComment is issued
PriorCommentFound ==
  LET priorComment == FindPriorComment(comments, invocation.identifier)
  IN  /\ cpc = "awaitList"
      /\ priorComment # 0
      /\ commentCalls' = <<[commentCalls[1] EXCEPT !.state = "ok"],
                           CommentCall("updateComment", priorComment, invocation.comment)>>
      /\ cpc' = "awaitUpdate"
      /\ UNCHANGED <<issueNumber, initialComments, comments, nextId, invocation, history>>
      /\ UNCHANGED <<checkVars, tableVars>>

\* line 276-277, 259-265: no prior comment, createComment is issued
PriorCommentMissing ==
  LET priorComment == FindPriorComment(comments, invocation.identifier)
  IN  /\ cpc = "awaitList"
      /\ priorComment = 0
      /\ commentCalls' = <<[commentCalls[1] EXCEPT !.state = "ok"],
                           CommentCall("createComment", 0, invocation.comment)>>
      /\ cpc' = "awaitCreate"
      /\ UNCHANGED <<issueNumber, initialComments, comments, nextId, invocation, history>>
      /\ UNCHANGED <<checkVars, tableVars>>

\* GitHub stores the new body of the comment and answers
UpdateCommentResolves ==
  LET call == commentCalls[Len(commentCalls)]
  IN  /\ cpc = "awaitUpdate"
      /\ comments' = [i \in 1..Len(comments) |->
                        IF comments[i].id = call.comment_id
                          THEN [comments[i] EXCEPT !.hasBody = TRUE, !.body = call.body]
                          ELSE comments[i]]
      /\ commentCalls' = [commentCalls EXCEPT ![Len(commentCalls)].state = "ok"]
      /\ Finished("resolved", "update", call.comment_id)
      /\ UNCHANGED <<issueNumber, initialComments, nextId>>
      /\ UNCHANGED <<checkVars, tableVars>>

UpdateCommentRejects ==
  /\ cpc = "awaitUpdate"
  /\ commentCalls' = [commentCalls EXCEPT ![Len(commentCalls)].state = "failed"]
  /\ Finished("rejected", "update", commentCalls[Len(commentCalls)].comment_id)
  /\ UNCHANGED <<issueNumber, initialComments, comments, nextId>>
  /\ UNCHANGED <<checkVars, tableVars>>

\* GitHub stores the new comment under a fresh id and answers
CreateCommentResolves ==
  LET call == commentCalls[Len(commentCalls)]
  IN  /\ cpc = "awaitCreate"
      /\ comments' = Append(comments, [id |-> nextId, hasBody |-> TRUE, body |-> call.body])
      /\ nextId' = nextId + 1
      /\ commentCalls' = [commentCalls EXCEPT ![Len(commentCalls)].state = "ok"]
      /\ Finished("resolved", "create", nextId)
      /\ UNCHANGED <<issueNumber, initialComments>>
      /\ UNCHANGED <<checkVars, tableVars>>

CreateCommentRejects ==
  /\ cpc = "awaitCreate"
  /\ commentCalls' = [commentCalls EXCEPT ![Len(commentCalls)].state = "failed"]
  /\ Finished("rejected", "create", 0)
  /\ UNCHANGED <<issueNumber, initialComments, comments, nextId>>
  /\ UNCHANGED <<checkVars, tableVars>>

InitComment == CheckIdle /\ TableIdle /\ CommentInit

NextComment ==
  \/ \E checkName \in CheckNameLists, updateComment \in BOOLEAN, t \in CommentTables :
       AttachWithoutIssue(checkName, updateComment, t)
  \/ \E checkName \in CheckNameLists, t \in CommentTables : AttachListing(checkName, t)
  \/ \E checkName \in CheckNameLists, t \in CommentTables : AttachCreating(checkName, t)
  \/ ListCommentsRejects
  \/ PriorCommentFound
  \/ PriorCommentMissing
  \/ UpdateCommentResolves
  \/ UpdateCommentRejects
  \/ CreateCommentResolves
  \/ CreateCommentRejects

SpecComment == InitComment /\ [][NextComment]_vars

----------------------------------------------------------------------------
(* Properties of annotateTestResult *)

CallsOf(op) == LET is(c) == c.op = op IN SelectSeq(calls, is)

RECURSIVE ConcatAnnotations(_)
ConcatAnnotations(cs) ==
  IF cs = <<>> THEN <<>> ELSE Head(cs).annotations \o ConcatAnnotations(Tail(cs))

OnUpdatePath == ~options.annotateOnly /\ options.updateCheck
OnCreatePath == ~options.annotateOnly /\ ~options.updateCheck

\* C1: on the update path with annotations enabled and a check-run found,
\* the update calls number ceil(N/50) for N eligible annotations, each
\* carries at most 50 annotations, and their annotation lists concatenated
\* in issue order are the eligible list.
C1_ChunkedUpdates ==
  (OnUpdatePath /\ options.checkAnnotations /\ checkRuns # <<>> /\ pc = "resolved")
    => LET updates == CallsOf("update")
           eligible == annotations
           N == Len(eligible)
       IN  /\ Len(updates) = (N + 49) \div 50
           /\ \A k \in 1..Len(updates) : Len(updates[k].annotations) <= 50
           /\ ConcatAnnotations(updates) = eligible

C1_Witness ==
  /\ OnUpdatePath /\ options.checkAnnotations /\ pc = "resolved"
  /\ ~options.annotateNotice
  /\ Len(annotations) = 67
  /\ Len(testResult.annotations) > 67
  /\ Len(CallsOf("update")) = 2
  /\ Len(calls[3].annotations) = 17

\* C4: the conclusion sent in the create call is failure when failed > 0 and
\* success when failed = 0, whatever skipped, passed and totalCount are.
C4_Conclusion ==
  \A k \in 1..Len(calls) :
    calls[k].op = "create"
      => /\ testResult.failed > 0 => calls[k].conclusion = "failure"
         /\ testResult.failed = 0 => calls[k].conclusion = "success"

C4_Witness ==
  /\ Len(calls) = 1 /\ calls[1].op = "create"
  /\ testResult.failed = 0 /\ testResult.totalCount = 0 /\ testResult.skipped > 0
  /\ calls[1].conclusion = "success"

\* C5: on the create path exactly one create call is issued; it carries the
\* first min(N, 50) eligible annotations in order when checkAnnotations is
\* set and none otherwise, and no call carries an annotation past the 50th.
C5_CreateTruncates ==
  (OnCreatePath /\ pc # "start")
    => LET eligible == annotations
           N == Len(eligible)
           M == IF N < 50 THEN N ELSE 50
           first == SubSeq(eligible, 1, M)
           sent == UNION {{c.annotations[j] : j \in 1..Len(c.annotations)} :
                            c \in {calls[k] : k \in 1..Len(calls)}}
       IN  /\ Len(calls) = 1
           /\ calls[1].op = "create"
           /\ calls[1].annotations = (IF options.checkAnnotations THEN first ELSE <<>>)
           /\ sent \subseteq {first[i] : i \in 1..M}

C5_Witness ==
  /\ OnCreatePath /\ options.checkAnnotations /\ pc = "resolved"
  /\ Len(annotations) > 50
  /\ Len(calls[1].annotations) = 50

\* C6: on the update path, when the lookup answers with no check-run, the
\* operation rejects and issues no update and no create call.
C6_LookupMissFails ==
  (OnUpdatePath /\ checkRuns = <<>>)
    => /\ pc # "resolved"
       /\ CallsOf("update") = <<>>
       /\ CallsOf("create") = <<>>
       /\ (calls # <<>> /\ calls[1].state = "ok") => pc = "rejected"

C6_Witness ==
  /\ OnUpdatePath /\ checkRuns = <<>>
  /\ calls # <<>> /\ calls[1].state = "ok"
  /\ pc = "rejected"

\* C7: whenever a create or update call of annotateTestResult rejects, the
\* promise of annotateTestResult rejects, and it never resolves while one of
\* its calls has failed or is outstanding.
C7_ErrorsPropagate ==
  /\ pc = "resolved" => \A k \in 1..Len(calls) : calls[k].state = "ok"
  /\ \A k \in 1..Len(calls) :
       (calls[k].op \in {"create", "update"} /\ calls[k].state = "failed")
         => pc = "rejected"

\* C9: with annotateOnly no check-run call is issued, and every eligible
\* annotation yields one diagnostic, in order: error for failure, warning
\* for warning, notice for notice.
ExpectedSeverity(level) ==
  CASE level = "failure" -> "error"
    [] level = "warning" -> "warning"
    [] level = "notice" -> "notice"

C9_AnnotateOnly ==
  options.annotateOnly
    => /\ calls = <<>>
       /\ pc \in {"start", "resolved"}
       /\ pc = "resolved"
            => LET eligible == annotations
               IN  diagnostics =
                     [i \in 1..Len(eligible) |->
                        [severity |-> ExpectedSeverity(eligible[i].annotation_level),
                         file |-> eligible[i].path]]

C9_Witness ==
  /\ options.annotateOnly /\ options.updateCheck /\ options.annotateNotice
  /\ pc = "resolved"
  /\ Len(diagnostics) > 2
  /\ \E i \in 1..Len(diagnostics) : diagnostics[i].severity = "notice"
  /\ \E i \in 1..Len(diagnostics) : diagnostics[i].severity = "error"

----------------------------------------------------------------------------
(* Properties of buildSummaryTables *)

\* every annotation of every result, in input order, as <<result, annotation>>
RECURSIVE AllAnnotations(_)
AllAnnotations(results) ==
  IF results = <<>> THEN <<>>
  ELSE [i \in 1..Len(Head(results).annotations) |->
          <<Head(results), Head(results).annotations[i]>>]
       \o AllAnnotations(Tail(results))

ExpectedFlakyRows(results) ==
  LET retried(p) == p[2].retries > 0
      ps == SelectSeq(AllAnnotations(results), retried)
  IN  [i \in 1..Len(ps) |->
         [header |-> FALSE,
          cells |-> <<ps[i][1].checkName, ps[i][2].title, ToString(ps[i][2].retries)>>]]

\* C8 as stated: with detailedSummary=false the details table and the flaky
\* table both have zero rows, whatever the results and the other flags.
C8_BothTablesEmpty ==
  (tpc = "done" /\ ~summaryFlags.detailedSummary)
    => /\ Len(tables.detailsTable) = 0
       /\ Len(tables.flakyTable) = 0

\* C8 amended: with detailedSummary=false the details table has zero rows and
\* the flaky table has no data row: zero rows when flakySummary=false, the
\* header row alone when flakySummary=true.
C8_NoDataRows ==
  (tpc = "done" /\ ~summaryFlags.detailedSummary)
    => /\ Len(tables.detailsTable) = 0
       /\ Len(tables.flakyTable) = (IF summaryFlags.flakySummary THEN 1 ELSE 0)
       /\ \A i \in 1..Len(tables.flakyTable) : tables.flakyTable[i].header

C8_Witness ==
  /\ tpc = "done" /\ ~summaryFlags.detailedSummary /\ summaryFlags.flakySummary
  /\ \E r \in 1..Len(testResults) : \E i \in 1..Len(testResults[r].annotations) :
       /\ testResults[r].annotations[i].retries > 0
       /\ testResults[r].annotations[i].annotation_level = "failure"
  /\ Len(tables.flakyTable) = 1

\* C10: the flaky table has zero rows when flakySummary=false, and with
\* flakySummary and detailedSummary both set it is the header row followed by
\* one row (checkName, title, retries) for every annotation with retries > 0
\* of every result, in input order, whatever its level and includePassed.
C10_FlakyTable ==
  tpc = "done"
    => /\ ~summaryFlags.flakySummary => Len(tables.flakyTable) = 0
       /\ (summaryFlags.flakySummary /\ summaryFlags.detailedSummary)
            => /\ Len(tables.flakyTable) >= 1
               /\ tables.flakyTable[1].header
               /\ Tail(tables.flakyTable) = ExpectedFlakyRows(testResults)

----------------------------------------------------------------------------
(* Properties of attachComment *)

CommentCallsOf(op) == LET is(c) == c.op = op IN SelectSeq(commentCalls, is)

\* the ids of the comments of cs whose body ends with the identifier of L
Matching(cs, L) ==
  { cs[i].id : i \in { j \in 1..Len(cs) :
      cs[j].hasBody /\ EndsWith(cs[j].body, BuildCommentIdentifier(L)) } }

\* C2: with a valid issue number, once the comments are known: with
\* updateComment and a comment ending with the identifier, one updateComment
\* call on that comment and no createComment call; with updateComment and no
\* such comment, or without updateComment, one createComment call and no
\* updateComment call.  The calls stay the only ones of the invocation.
C2_UpdateOrCreate ==
  /\ cpc \in {"awaitUpdate", "awaitCreate"}
       => LET updates == CommentCallsOf("updateComment")
              creates == CommentCallsOf("createComment")
              matching == Matching(comments, invocation.checkName)
          IN  /\ issueNumber # 0
              /\ IF invocation.updateComment /\ matching # {}
                   THEN /\ Len(updates) = 1 /\ Len(creates) = 0
                        /\ updates[1].comment_id \in matching
                        /\ updates[1].body = invocation.comment
                   ELSE /\ Len(creates) = 1 /\ Len(updates) = 0
                        /\ creates[1].body = invocation.comment
  /\ (cpc = "idle" /\ invocation.outcome = "resolved")
       => Len(CommentCallsOf("updateComment")) + Len(CommentCallsOf("createComment")) = 1
  /\ (cpc = "idle" /\ invocation.outcome = "skipped") => commentCalls = <<>>

C2_Witness ==
  /\ cpc = "awaitUpdate"
  /\ invocation.updateComment
  /\ Len(comments) = 2
  /\ ~comments[1].hasBody
  /\ commentCalls[2].op = "updateComment"
  /\ commentCalls[2].comment_id = 2

\* C3: from a pull request with no comment ending with the identifier of L,
\* after invocations that all publish under L with updateComment, of which
\* at least one completed, exactly one comment ends with the identifier of
\* L: the first completed invocation created it and every later one updated
\* that comment.  Before one completes there is none.
C3_NoDuplicateComments ==
  \A L \in CheckNameLists :
    ( /\ Matching(initialComments, L) = {}
      /\ \A i \in 1..Len(history) : history[i].checkName = L /\ history[i].updateComment )
      => LET done == { i \in 1..Len(history) : history[i].outcome = "resolved" }
             now == Matching(comments, L)
         IN  /\ done = {} => now = {}
             /\ done # {} => Cardinality(now) = 1
             /\ \A i \in done :
                  /\ history[i].comment_id \in now
                  /\ history[i].op = (IF \E j \in done : j < i THEN "update" ELSE "create")

C3_Witness ==
  /\ Len(history) = 2
  /\ \A i \in 1..2 : /\ history[i].checkName = <<"unit", "e2e">>
                     /\ history[i].updateComment
                     /\ history[i].outcome = "resolved"
  /\ Len(initialComments) = 2
  /\ Matching(initialComments, <<"unit", "e2e">>) = {}
  /\ history[1].op = "create" /\ history[2].op = "update"
  /\ history[2].comment_id = 3
  /\ comments[3].body # commentCalls[1].body

====
